---- MODULE Spec2Model ----
(***************************************************************************)
(* Streaming generation controller (PromptInput) and the auto-heal loop of *)
(* the generate page, as state machines; the SSE frame parser as a pure    *)
(* function driven by its own specification.                               *)
(*                                                                         *)
(* One action is one synchronous block of the JavaScript event loop: an    *)
(* event handler, or the continuation of an await, together with the React *)
(* commit and the passive effects it causes (Settle).                      *)
(***************************************************************************)
EXTENDS Integers, Sequences, FiniteSets, TLC

\* ---------------------------------------------------------------- bounds
\* number of generation requests that may be alive at the same time
MaxGen == 2
\* number of quick-fix requests that may be alive at the same time
MaxFix == 1
\* frames of one response body (parser specification)
MaxFrames == 3

\* ------------------------------------------------------ program constants
MAX_AUTO_RETRIES == 2

VARIABLES
    gens,   \* generation requests: one record per runGeneration invocation alive
    fixes,  \* quick-fix requests: one record per triggerFix invocation alive
    ctl,    \* PromptInput: isLoading state and the three refs, abort flags
    page,   \* GeneratePageContent: React state and refs
    ev,     \* what the last action did (history of one step)
    hist,   \* history kept across steps
    ps,     \* state of the stream-reading loop (parser specification)
    fn      \* state of the specifications of the other functions

vars == <<gens, fixes, ctl, page, ev, hist, ps, fn>>

Slots == 1..MaxGen
FixSlots == 1..MaxFix

Min2(a, b) == IF a < b THEN a ELSE b

\* a request slot that is not in use
IdleGen == [phase |-> "idle", sig |-> 0, superseded |-> FALSE, cancelled |-> "no"]
IdleFix == [phase |-> "idle", clIsLoading |-> FALSE, cancelled |-> FALSE]

\* the page's view at an automatic triggerFix call
NoCond == [enabled |-> TRUE, belowMax |-> TRUE, justFinished |-> TRUE, error |-> TRUE,
           generationError |-> "none", byCancel |-> FALSE]

\* the events of one step, before anything happened
NoEv(op) ==
    [codeStale |-> FALSE,      \* onCodeGenerated by a superseded request
     cbCancelledMid |-> FALSE, \* onCodeGenerated/onError by a request cancelled while its transport was open
     errCancelled |-> FALSE,   \* onError by a request the user cancelled (any phase)
     countReset |-> FALSE,     \* setAutoFixCount(0) run on a non-zero counter, no fresh generation
     fixCall |-> "none",       \* automatic triggerFix call: none, skipped, issued
     fixCond |-> NoCond,       \* the page's view when that call was made
     got429 |-> FALSE,         \* the quick-fix response of this step was a 429
     genStarted |-> FALSE      \* a runGeneration call passed the entry guard
    ]

\* ------------------------------------------------------------ page handlers
\* handleStreamingChange
handleStreamingChange(w, streaming) ==
    [w EXCEPT !.page.isStreaming = streaming,
              !.page.generationError = IF streaming THEN "none" ELSE @]

\* handleError
handleError(w, type) == [w EXCEPT !.page.generationError = type]

\* handleCodeChange (onCodeGenerated of the controller, onChange of the editor)
handleCodeChange(w, bad) ==
    [w EXCEPT !.page.codeBad = bad,
              !.page.justFinished = IF w.page.isStreamingRef THEN @ ELSE FALSE,
              !.page.debounce = IF w.page.isStreamingRef THEN "none"
                                ELSE IF bad THEN "bad" ELSE "ok"]

\* compileCode of useAnimationState: synchronous, sets error from the code
compileCode(w, bad) == [w EXCEPT !.page.error = bad]

\* ------------------------------------------------------ controller: requests
\* lowest slot whose controller no request listens to any more, 0 if none
FreeGen(w) ==
    LET free == {g \in Slots : w.gens[g].phase = "idle"
                               /\ \A h \in Slots : w.gens[h].sig # g}
    IN IF free = {} THEN 0 ELSE CHOOSE g \in free : \A h \in free : g <= h

FreeFix(w) ==
    LET free == {f \in FixSlots : w.fixes[f].phase = "idle"}
    IN IF free = {} THEN 0 ELSE CHOOSE f \in free : \A h \in free : f <= h

\* runGeneration up to its first await: entry guard on the isLoading of the
\* render the caller's closure comes from, abort of the controller in the ref,
\* new controller, setIsLoading(true), onStreamingChange(true)
runGeneration(w, closureIsLoading) ==
    IF closureIsLoading THEN w
    ELSE LET g == FreeGen(w) IN
         IF g = 0 THEN [w EXCEPT !.ok = FALSE]
         ELSE LET old == w.ctl.abortRef
                  w1 == [w EXCEPT
                           !.ctl.abortedGen = (IF old # 0 THEN @ \cup {old} ELSE @) \ {g},
                           !.ctl.abortRef = g,
                           !.ctl.isLoading = TRUE,
                           !.ev.genStarted = TRUE,
                           !.gens = [h \in Slots |->
                                       IF h = g
                                       THEN [phase |-> "prep", sig |-> 0,
                                             superseded |-> FALSE, cancelled |-> "no"]
                                       ELSE IF w.gens[h].phase # "idle"
                                            THEN [w.gens[h] EXCEPT !.superseded = TRUE]
                                            ELSE w.gens[h]]]
              IN handleStreamingChange(w1, TRUE)

\* the finally block of runGeneration
genFinally(w, g) ==
    handleStreamingChange(
        [w EXCEPT !.ctl.isLoading = FALSE,
                  !.ctl.abortRef = 0,
                  !.gens[g] = IdleGen],
        FALSE)

\* onCodeGenerated called by generation request g
genCode(w, g, bad) ==
    handleCodeChange(
        [w EXCEPT !.ev.codeStale = @ \/ w.gens[g].superseded,
                  !.ev.cbCancelledMid = @ \/ (w.gens[g].cancelled = "mid")],
        bad)

\* onError called by generation request g
genError(w, g, type) ==
    handleError(
        [w EXCEPT !.ev.errCancelled = @ \/ (w.gens[g].cancelled # "no"),
                  !.ev.cbCancelledMid = @ \/ (w.gens[g].cancelled = "mid")],
        type)

\* triggerFix up to its first await
triggerFix(w) ==
    IF w.ctl.isCancelled THEN w
    ELSE LET f == FreeFix(w) IN
         IF f = 0 THEN [w EXCEPT !.ok = FALSE]
         ELSE LET old == w.ctl.quickRef
                  w1 == [w EXCEPT
                           !.ctl.abortedFix = (IF old # 0 THEN @ \cup {old} ELSE @) \ {f},
                           !.ctl.quickRef = f,
                           !.fixes[f] = [phase |-> "fetch",
                                         clIsLoading |-> w.ctl.isLoading,
                                         cancelled |-> FALSE]]
              IN handleStreamingChange(w1, TRUE)

\* the finally block of triggerFix
fixFinally(w, f) ==
    LET w1 == [w EXCEPT !.ctl.quickRef = 0, !.fixes[f] = IdleFix]
    IN IF ~w.ctl.isCancelled THEN handleStreamingChange(w1, FALSE) ELSE w1

\* the fallback of triggerFix: runGeneration(fixPrompt, code) of the render
\* triggerFix was called in
fixFallback(w, f) ==
    runGeneration(w, w.fixes[f].clIsLoading)

\* onCodeGenerated called by quick-fix request f
fixCode(w, f, bad) ==
    handleCodeChange([w EXCEPT !.ev.cbCancelledMid = @ \/ w.fixes[f].cancelled], bad)

\* onError called by quick-fix request f
fixError(w, f, type) ==
    handleError([w EXCEPT !.ev.cbCancelledMid = @ \/ w.fixes[f].cancelled,
                          !.ev.errCancelled = @ \/ w.fixes[f].cancelled], type)

\* cancelGeneration
cancelGeneration(w) ==
    LET g == w.ctl.abortRef
        f == w.ctl.quickRef
        w1 == [w EXCEPT
                 !.ctl.isCancelled = TRUE,
                 !.ctl.abortedGen = IF g # 0 THEN @ \cup {g} ELSE @,
                 !.ctl.abortRef = 0,
                 !.ctl.abortedFix = IF f # 0 THEN @ \cup {f} ELSE @,
                 !.ctl.quickRef = 0,
                 !.ctl.isLoading = FALSE,
                 !.gens = [h \in Slots |->
                             IF w.gens[h].phase = "idle" \/ w.gens[h].cancelled # "no"
                             THEN w.gens[h]
                             ELSE [w.gens[h] EXCEPT !.cancelled =
                                     IF w.gens[h].phase = "prep" THEN "prep" ELSE "mid"]],
                 !.fixes = [h \in FixSlots |->
                             IF w.fixes[h].phase = "idle" THEN w.fixes[h]
                             ELSE [w.fixes[h] EXCEPT !.cancelled = TRUE]]]
    IN handleStreamingChange(w1, FALSE)

\* ------------------------------------------------------------ page effects
\* useEffect [code]: codeRef.current is the code of the committed render when
\* the later effects of the same commit run
codeRef(c) == c.codeBad

\* useEffect [isStreaming, compileCode, agentStatus]; c is the committed
\* render, w collects the state updates and holds the refs
StreamingEffect(c, w) ==
    LET wasStreaming == w.page.isStreamingRef
        wa == [w EXCEPT !.page.isStreamingRef = c.isStreaming]
        wb == IF c.isStreaming
              THEN [wa EXCEPT
                      !.page.agentStatus = "monitoring",
                      !.page.autoFixCount = IF c.agentStatus # "fixing" THEN 0 ELSE @,
                      !.ev.countReset = @ \/ (c.agentStatus # "fixing"
                                              /\ wa.page.autoFixCount > 0
                                              /\ w.op \notin {"Submit", "TriggerGeneration"})]
              ELSE wa
    IN IF wasStreaming /\ ~c.isStreaming
       THEN [compileCode(wb, codeRef(c)) EXCEPT
               !.page.justFinished = TRUE,
               !.hist.byCancel = (w.op = "Cancel")]
       ELSE wb

\* useEffect "Agent Brain: Auto-heal errors"
AutoHealEffect(c, w) ==
    IF ~c.autoHealEnabled \/ c.isStreaming \/ c.autoFixCount >= MAX_AUTO_RETRIES
    THEN IF ~c.isStreaming /\ c.agentStatus = "fixing"
         THEN [w EXCEPT !.page.agentStatus = "idle"]
         ELSE w
    ELSE LET currentError == c.generationError # "none" \/ c.error IN
         IF currentError /\ w.page.justFinished
         THEN triggerFix(
                [w EXCEPT
                   !.page.justFinished = FALSE,
                   !.page.agentStatus = "fixing",
                   !.page.autoFixCount = Min2(@ + 1, MAX_AUTO_RETRIES + 1),
                   !.hist.autoCalls = Min2(@ + 1, MAX_AUTO_RETRIES + 1),
                   !.ev.fixCall = IF w.ctl.isCancelled THEN "skipped" ELSE "issued",
                   !.ev.fixCond = [enabled |-> c.autoHealEnabled,
                                   belowMax |-> c.autoFixCount < MAX_AUTO_RETRIES,
                                   justFinished |-> w.page.justFinished,
                                   error |-> c.error,
                                   generationError |-> c.generationError,
                                   byCancel |-> w.hist.byCancel]])
         ELSE IF ~currentError /\ ~c.isStreaming
              THEN [w EXCEPT !.page.agentStatus = "idle"]
              ELSE w

\* the React state of the page (what a change of re-renders)
PageState(p) ==
    <<p.isStreaming, p.agentStatus, p.autoFixCount, p.autoHealEnabled,
      p.generationError, p.error, p.codeBad>>

\* commit and passive effects until no state update is pending: prev is the
\* previous committed render, w.page the one being committed
RECURSIVE Settle(_, _)
Settle(prev, w) ==
    LET c == w.page
        w1 == IF c.isStreaming # prev.isStreaming \/ c.agentStatus # prev.agentStatus
              THEN StreamingEffect(c, w)
              ELSE w
        w2 == AutoHealEffect(c, w1)
    IN IF PageState(w2.page) = PageState(c) THEN w2 ELSE Settle(c, w2)

\* ------------------------------------------------------------------ actions
World(op) ==
    [gens |-> gens, fixes |-> fixes, ctl |-> ctl, page |-> page,
     ev |-> NoEv(op), hist |-> hist, op |-> op, ok |-> TRUE]

\* abort flags of controllers nobody listens to are dropped, and so is the
\* history of a request that can only end with AbortError
Normalize(w) ==
    [w EXCEPT
       !.ctl.abortedGen = {g \in @ : \E h \in Slots :
                              w.gens[h].phase # "idle" /\ w.gens[h].sig = g},
       !.ctl.abortedFix = {f \in @ : w.fixes[f].phase # "idle"},
       !.hist.byCancel = @ /\ w.page.justFinished,
       !.gens = [h \in Slots |->
                   IF w.gens[h].sig \in w.ctl.abortedGen
                   THEN [w.gens[h] EXCEPT !.superseded = FALSE, !.cancelled = "no"]
                   ELSE w.gens[h]],
       !.fixes = [h \in FixSlots |->
                   IF w.fixes[h].phase # "idle" /\ h \in w.ctl.abortedFix
                   THEN [IdleFix EXCEPT !.phase = "fetch"]
                   ELSE w.fixes[h]]]

\* the step is the handler followed by React's commit and effects; the
\* auto-start timeout (100 ms after mount) fires before anything else happens
Finish(w0) ==
    LET w == Normalize(Settle(page, w0))
    IN /\ w.ok
       /\ page.autoStartTimer => w0.op = "TriggerGeneration"
       /\ gens' = w.gens
       /\ fixes' = w.fixes
       /\ ctl' = w.ctl
       /\ page' = w.page
       /\ ev' = w.ev
       /\ hist' = w.hist
       /\ UNCHANGED <<ps, fn>>

\* a fresh user-initiated generation that passed the entry guard
Fresh(w) ==
    IF w.ev.genStarted
    THEN [w EXCEPT !.hist.autoCalls = 0]
    ELSE w

\* handleSubmit (the submit button is disabled while isLoading)
Submit ==
    /\ ~ctl.isLoading
    /\ Finish(Fresh(runGeneration(World("Submit"), ctl.isLoading)))

\* triggerGeneration of the imperative handle, called by the page's
\* auto-start timeout
TriggerGeneration ==
    /\ page.autoStartTimer
    /\ Finish(Fresh(runGeneration(
           [World("TriggerGeneration") EXCEPT !.ctl.isCancelled = FALSE,
                                              !.page.autoStartTimer = FALSE],
           ctl.isLoading)))

\* the cancel button (rendered while isLoading)
Cancel ==
    /\ ctl.isLoading
    /\ Finish(cancelGeneration(World("Cancel")))

\* reference analysis and asset processing are over: the transport is opened
\* with the signal of whatever controller the ref holds now
GenPrepDone(g) ==
    /\ gens[g].phase = "prep"
    /\ LET w == World("GenPrepDone") IN
       IF ctl.abortRef = 0
       THEN Finish(genFinally(genError(w, g, "api"), g))
       ELSE Finish([w EXCEPT !.gens[g].phase = "fetch",
                             !.gens[g].sig = ctl.abortRef])

\* fetch or reader.read rejects with AbortError: catch returns, finally runs
GenAborted(g) ==
    /\ gens[g].phase \in {"fetch", "stream"}
    /\ gens[g].sig \in ctl.abortedGen
    /\ Finish(genFinally(World("GenAborted"), g))

\* the response arrives
GenResponse(g, outcome) ==
    /\ gens[g].phase = "fetch"
    /\ gens[g].sig \notin ctl.abortedGen
    /\ LET w == World("GenResponse") IN
       CASE outcome = "ok" -> Finish([w EXCEPT !.gens[g].phase = "stream"])
         [] outcome = "validation" -> Finish(genFinally(genError(w, g, "validation"), g))
         [] OTHER -> Finish(genFinally(genError(w, g, "api"), g))

\* a chunk with a text-delta frame is read
GenDelta(g, bad) ==
    /\ gens[g].phase = "stream"
    /\ gens[g].sig \notin ctl.abortedGen
    /\ Finish(genCode(World("GenDelta"), g, bad))

\* a chunk with an error frame is read
GenStreamError(g) ==
    /\ gens[g].phase = "stream"
    /\ gens[g].sig \notin ctl.abortedGen
    /\ Finish(genFinally(genError(World("GenStreamError"), g, "api"), g))

\* end of stream: final code, validateGptResponse, finally
GenEnd(g, bad, valid) ==
    /\ gens[g].phase = "stream"
    /\ gens[g].sig \notin ctl.abortedGen
    /\ LET w1 == genCode(World("GenEnd"), g, bad)
           w2 == IF valid THEN w1 ELSE genError(w1, g, "validation")
       IN Finish(genFinally(w2, g))

\* the quick-fix fetch rejects with AbortError
FixAborted(f) ==
    /\ fixes[f].phase = "fetch"
    /\ f \in ctl.abortedFix
    /\ Finish(fixFinally(World("FixAborted"), f))

\* the quick-fix response arrives
FixResponse(f, outcome, bad) ==
    /\ fixes[f].phase = "fetch"
    /\ f \notin ctl.abortedFix
    /\ LET w == World("FixResponse") IN
       IF ctl.isCancelled THEN Finish(fixFinally(w, f))
       ELSE CASE outcome = "429" ->
                   Finish(fixFinally([fixError(w, f, "api") EXCEPT
                                        !.ev.got429 = TRUE], f))
              [] outcome = "fixed" -> Finish(fixFinally(fixCode(w, f, bad), f))
              [] OTHER -> Finish(fixFinally(fixFallback(w, f), f))

\* the "Auto-Fix Error" button
ManualFix ==
    /\ page.generationError # "none"
    /\ Finish(triggerFix(World("ManualFix")))

\* the agent status indicator toggles auto-heal
ToggleAutoHeal ==
    Finish([World("ToggleAutoHeal") EXCEPT !.page.autoHealEnabled = ~@])

\* the user types in the code editor
ManualEdit(bad) ==
    /\ ~page.isStreaming
    /\ Finish(handleCodeChange(World("ManualEdit"), bad))

\* the 500 ms debounce timeout of handleCodeChange
DebounceFire ==
    /\ page.debounce # "none"
    /\ Finish([compileCode(World("DebounceFire"), page.debounce = "bad") EXCEPT
                 !.page.debounce = "none"])

\* the 2 s timeout armed when streaming ended; while the ref is true the
\* timeout armed together with its last setting is still pending
JustFinishedTimeout ==
    /\ page.justFinished
    /\ Finish([World("JustFinishedTimeout") EXCEPT !.page.justFinished = FALSE])

\* the parser is not running
NoParse == [frames |-> <<>>, rest |-> <<>>, buffer |-> <<>>, acc |-> <<>>,
            status |-> "idle", split |-> FALSE]

\* no function specification is running
NoFn == [kind |-> "none"]

\* the page and the controller after mount
InitApp ==
    /\ gens = [g \in Slots |-> IdleGen]
    /\ fixes = [f \in FixSlots |-> IdleFix]
    /\ ctl = [isLoading |-> FALSE, abortRef |-> 0, quickRef |-> 0,
              isCancelled |-> FALSE, abortedGen |-> {}, abortedFix |-> {}]
    /\ \E willAutoStart \in BOOLEAN :
         page = [isStreaming |-> willAutoStart,
                 agentStatus |-> IF willAutoStart THEN "monitoring" ELSE "idle",
                 autoFixCount |-> 0,
                 autoHealEnabled |-> TRUE,
                 generationError |-> "none",
                 error |-> FALSE,
                 codeBad |-> FALSE,
                 isStreamingRef |-> willAutoStart,
                 justFinished |-> FALSE,
                 debounce |-> "none",
                 autoStartTimer |-> willAutoStart]
    /\ ev = NoEv("Init")
    /\ hist = [autoCalls |-> 0, byCancel |-> FALSE]

Init ==
    /\ InitApp
    /\ ps = NoParse
    /\ fn = NoFn

Next ==
    \/ Submit
    \/ TriggerGeneration
    \/ Cancel
    \/ \E g \in Slots : GenPrepDone(g)
    \/ \E g \in Slots : GenAborted(g)
    \/ \E g \in Slots : \E outcome \in {"ok", "validation", "error"} : GenResponse(g, outcome)
    \/ \E g \in Slots : \E bad \in BOOLEAN : GenDelta(g, bad)
    \/ \E g \in Slots : GenStreamError(g)
    \/ \E g \in Slots : \E bad \in BOOLEAN : \E valid \in BOOLEAN : GenEnd(g, bad, valid)
    \/ \E f \in FixSlots : FixAborted(f)
    \/ \E f \in FixSlots : \E outcome \in {"fixed", "nofix", "429", "fail"} :
          \E bad \in BOOLEAN : FixResponse(f, outcome, bad)
    \/ ManualFix
    \/ ToggleAutoHeal
    \/ \E bad \in BOOLEAN : ManualEdit(bad)
    \/ DebounceFire
    \/ JustFinishedTimeout

Spec == Init /\ [][Next]_vars

\* ------------------------------------------------- the stream-reading loop
\* A response body is a sequence of characters; the characters that matter
\* are kept apart: the two halves of the "data: " prefix, the JSON text of an
\* event, the delta payload, and the newline.
NL == "\n"
FrameKinds == {"deltaA", "deltaB", "textStart", "done", "blank", "garbage", "unknown", "error"}

\* the line of a frame, as the servers write it, newline included
FrameText(kind) ==
    CASE kind = "deltaA" -> <<"da", "ta: ", "{text-delta:", "A", "}", NL>>
      [] kind = "deltaB" -> <<"da", "ta: ", "{text-delta:", "B", "}", NL>>
      [] kind = "textStart" -> <<"da", "ta: ", "{text-start}", NL>>
      [] kind = "done" -> <<"da", "ta: ", "[DONE]", NL>>
      [] kind = "blank" -> <<NL>>
      [] kind = "garbage" -> <<"da", "ta: ", "{text-delta:", NL>>
      [] kind = "unknown" -> <<"da", "ta: ", "{reasoning-delta}", NL>>
      [] OTHER -> <<"da", "ta: ", "{error}", NL>>

RECURSIVE Body(_)
Body(frames) ==
    IF frames = <<>> THEN <<>> ELSE FrameText(Head(frames)) \o Body(Tail(frames))

\* String.prototype.split("\n"): the pieces between newlines, the last piece
\* being what follows the last newline
RECURSIVE SplitLines(_, _)
SplitLines(text, cur) ==
    IF text = <<>> THEN <<cur>>
    ELSE IF Head(text) = NL THEN <<cur>> \o SplitLines(Tail(text), <<>>)
    ELSE SplitLines(Tail(text), Append(cur, Head(text)))

\* line.startsWith("data: ")
StartsWithData(line) == Len(line) >= 2 /\ line[1] = "da" /\ line[2] = "ta: "

\* one iteration of "for (const line of lines)": the accumulator after the
\* line, or "throw" when the iteration throws out of the loop
ProcessLine(acc, line) ==
    IF ~StartsWithData(line) THEN [acc |-> acc, throw |-> FALSE]
    ELSE LET data == SubSeq(line, 3, Len(line)) IN
         IF data = <<"[DONE]">> THEN [acc |-> acc, throw |-> FALSE]
         ELSE IF Len(data) = 3 /\ data[1] = "{text-delta:" /\ data[3] = "}"
              THEN [acc |-> Append(acc, data[2]), throw |-> FALSE]
         ELSE IF data = <<"{text-start}">> THEN [acc |-> acc, throw |-> FALSE]
         ELSE IF data = <<"{reasoning-delta}">> THEN [acc |-> acc, throw |-> FALSE]
         ELSE [acc |-> acc, throw |-> TRUE]

RECURSIVE ProcessLines(_, _)
ProcessLines(acc, lines) ==
    IF lines = <<>> THEN [acc |-> acc, throw |-> FALSE]
    ELSE LET r == ProcessLine(acc, Head(lines)) IN
         IF r.throw THEN r ELSE ProcessLines(r.acc, Tail(lines))

\* a loop that forgets the incomplete line at the end of a chunk
KeptBufferDropped(lines) == <<>>

\* lines.pop() || "": what is kept in the buffer after a chunk
KeptBuffer(lines) == lines[Len(lines)]

\* one iteration of "while (true)" with a chunk of k characters
ReadChunk(k) ==
    /\ ps.status = "reading"
    /\ k \in 1..Len(ps.rest)
    /\ LET buffer == ps.buffer \o SubSeq(ps.rest, 1, k)
           lines == SplitLines(buffer, <<>>)
           kept == KeptBuffer(lines)
           r == ProcessLines(ps.acc, SubSeq(lines, 1, Len(lines) - 1))
       IN ps' = [ps EXCEPT !.rest = SubSeq(ps.rest, k + 1, Len(ps.rest)),
                           !.buffer = kept,
                           !.acc = r.acc,
                           !.status = IF r.throw THEN "failed" ELSE "reading",
                           !.split = @ \/ kept # <<>>]
    /\ UNCHANGED <<gens, fixes, ctl, page, ev, hist, fn>>

\* reader.read() reports done: the loop is left
ReadDone ==
    /\ ps.status = "reading"
    /\ ps.rest = <<>>
    /\ ps' = [ps EXCEPT !.status = "done"]
    /\ UNCHANGED <<gens, fixes, ctl, page, ev, hist, fn>>

RECURSIVE FrameSeqs(_)
FrameSeqs(n) ==
    IF n = 0 THEN {<<>>}
    ELSE FrameSeqs(n - 1) \cup
         {Append(fs, k) : fs \in {f \in FrameSeqs(n - 1) : Len(f) = n - 1}, k \in FrameKinds}

InitParse ==
    /\ InitApp
    /\ page.autoStartTimer = FALSE
    /\ \E frames \in FrameSeqs(MaxFrames) :
         ps = [frames |-> frames, rest |-> Body(frames), buffer |-> <<>>,
               acc |-> <<>>, status |-> "reading", split |-> FALSE]
    /\ fn = NoFn

NextParse ==
    \/ \E k \in 1..(6 * MaxFrames) : ReadChunk(k)
    \/ ReadDone

SpecParse == InitParse /\ [][NextParse]_vars

\* ------------------------------------------------------------------ claims

\* C1: after one fresh user-initiated generation the page makes at most
\* MAX_AUTO_RETRIES automatic triggerFix calls, however many fix attempts fail.
AutoHealBound == hist.autoCalls <= MAX_AUTO_RETRIES

\* C2: autoFixCount is set back to 0 only in a step that starts a fresh
\* user-initiated generation, never by the start or end of a fix attempt.
CountResetOnlyByFreshGeneration == ~ev.countReset

\* C3: at most one generation request has its transport open and not aborted.
InFlight == {g \in Slots : gens[g].phase \in {"fetch", "stream"}
                           /\ gens[g].sig \notin ctl.abortedGen}

SingleFlight == Cardinality(InFlight) <= 1

\* C4: a generation request that was superseded by a later runGeneration
\* delivers no onCodeGenerated call.
NoCodeFromSuperseded == ~ev.codeStale

\* C5: a request that was cancelled by the user while its transport was open
\* delivers neither onCodeGenerated nor onError afterwards.
NoCallbackAfterCancel == ~ev.cbCancelledMid

\* C6: a request the user cancelled, in whatever phase, ends without onError.
CancelIsNotAnError == ~ev.errCancelled

\* C7: the step in which a quick fix is answered with 429 issues no quick-fix
\* request and starts no regeneration.
RateLimitHalts == ev.got429 => (ev.fixCall # "issued" /\ ~ev.genStarted)

\* C8: no automatic triggerFix call is made while the error shown is a
\* validation error.
NoAutoFixForValidation ==
    ev.fixCall # "none" => ev.fixCond.generationError # "validation"

\* C9: an automatic quick-fix request is issued only when a generation has just
\* finished, a compiler or API error is present, autoFixCount is below
\* MAX_AUTO_RETRIES, auto-heal is enabled and the generation was not ended by
\* the user's cancel.
AutoFixOnlyWhenAllowed ==
    ev.fixCall = "issued" =>
        /\ ev.fixCond.justFinished
        /\ ev.fixCond.error \/ ev.fixCond.generationError = "api"
        /\ ev.fixCond.belowMax
        /\ ev.fixCond.enabled
        /\ ~ev.fixCond.byCancel

\* payloads of the text-delta frames, in order
RECURSIVE DeltasOf(_)
DeltasOf(frames) ==
    IF frames = <<>> THEN <<>>
    ELSE (CASE Head(frames) = "deltaA" -> <<"A">>
            [] Head(frames) = "deltaB" -> <<"B">>
            [] OTHER -> <<>>) \o DeltasOf(Tail(frames))

Conforming(frames) ==
    \A i \in 1..Len(frames) : frames[i] \in {"deltaA", "deltaB", "textStart", "done", "blank"}

\* C10: for a body of newline-terminated data frames, however it is cut into
\* chunks, the accumulator at the end of the stream is the concatenation of
\* the text-delta payloads in arrival order.
ChunkIndependence ==
    (ps.status = "done" /\ Conforming(ps.frames)) => ps.acc = DeltasOf(ps.frames)

\* a stream whose last frame is a text-delta, read in chunks that cut a frame
ChunkIndependenceWitness ==
    /\ ps.status = "done"
    /\ Conforming(ps.frames)
    /\ ps.split
    /\ Len(ps.acc) >= 2
    /\ ps.frames[Len(ps.frames)] \in {"deltaA", "deltaB"}

\* index of the first [DONE] frame, 0 if there is none
FirstDone(frames) ==
    IF \E i \in 1..Len(frames) : frames[i] = "done"
    THEN CHOOSE i \in 1..Len(frames) :
           frames[i] = "done" /\ \A j \in 1..(i - 1) : frames[j] # "done"
    ELSE 0

BeforeDone(frames) == SubSeq(frames, 1, FirstDone(frames) - 1)

\* C11: once a [DONE] frame has been read no later frame of the response is
\* processed: the accumulator never holds more than the payloads of the
\* text-delta frames before the first [DONE], and the loop does not throw.
DoneTerminates ==
    (FirstDone(ps.frames) # 0 /\ Conforming(BeforeDone(ps.frames))) =>
        /\ ps.status # "failed"
        /\ Len(ps.acc) <= Len(DeltasOf(BeforeDone(ps.frames)))

\* ------------------------------------------------- progress of one stream
\* tokens of the streamed text (progress specification)
MaxText == 5

Max2(a, b) == IF a > b THEN a ELSE b

\* estimateCodeLength for a prompt of the given number of words; of the
\* feature patterns only the first is varied, the others do not match
estimateCodeLength(words, hasDataViz) ==
    LET base == 200
        byWords == IF words > 50 THEN base + 80
                   ELSE IF words > 30 THEN base + 40
                   ELSE IF words < 10 THEN base - 30
                   ELSE base
        estimate == IF hasDataViz THEN byWords + 100 ELSE byWords
    IN Max2(150, Min2(400, estimate))

\* the streamed text is a sequence of tokens: a run of code characters, a
\* newline, a markdown fence (three backquotes), a language tag
FENCE == "fence"
TextTokens == {"x", NL, FENCE, "tsx"}

DropIf(text, tok) ==
    IF text # <<>> /\ Head(text) = tok THEN Tail(text) ELSE text

\* the first replace of codeToShow: a fence at the start, an optional
\* language tag, an optional newline
StripLeadingFence(text) ==
    IF text # <<>> /\ Head(text) = FENCE
    THEN DropIf(DropIf(Tail(text), "tsx"), NL)
    ELSE text

\* the second replace of codeToShow: the fence that only whitespace follows,
\* with the newline before it
StripTrailingFence(text) ==
    LET closing == {i \in 1..Len(text) :
                      text[i] = FENCE /\ \A j \in (i + 1)..Len(text) : text[j] = NL}
    IN IF closing = {} THEN text
       ELSE LET i == CHOOSE k \in closing : TRUE
                start == IF i > 1 /\ text[i - 1] = NL THEN i - 1 ELSE i
            IN SubSeq(text, 1, start - 1)

CodeToShow(text) == StripTrailingFence(StripLeadingFence(text))

\* number of lines of codeToShow
RECURSIVE LineCount(_)
LineCount(text) ==
    IF text = <<>> THEN 1
    ELSE (IF Head(text) = NL THEN 1 ELSE 0) + LineCount(Tail(text))

\* Math.min(95, Math.round((currentLines / estimatedTotalLines) * 100))
ProgressPercent(currentLines, estimatedTotalLines) ==
    Min2(95, (200 * currentLines + estimatedTotalLines) \div (2 * estimatedTotalLines))

\* a text-delta event: accumulatedText += event.delta, onProgressChange
ProgressDelta(tok) ==
    /\ fn.kind = "progress"
    /\ fn.status = "streaming"
    /\ Len(fn.text) < MaxText
    /\ LET text == Append(fn.text, tok) IN
       fn' = [fn EXCEPT !.text = text,
                        !.prev = fn.cur,
                        !.cur = ProgressPercent(LineCount(CodeToShow(text)), fn.est)]
    /\ UNCHANGED <<gens, fixes, ctl, page, ev, hist, ps>>

\* end of stream: onProgressChange(100, estimatedTotalLines, finalLines)
ProgressFinal ==
    /\ fn.kind = "progress"
    /\ fn.status = "streaming"
    /\ fn' = [fn EXCEPT !.status = "final", !.prev = fn.cur, !.cur = 100]
    /\ UNCHANGED <<gens, fixes, ctl, page, ev, hist, ps>>

InitProgress ==
    /\ InitApp
    /\ page.autoStartTimer = FALSE
    /\ ps = NoParse
    /\ \E words \in {5, 20, 40, 60} : \E hasDataViz \in BOOLEAN :
         fn = [kind |-> "progress", est |-> estimateCodeLength(words, hasDataViz),
               text |-> <<>>, prev |-> 0, cur |-> 0, status |-> "streaming"]

NextProgress ==
    \/ \E tok \in TextTokens : ProgressDelta(tok)
    \/ ProgressFinal

SpecProgress == InitProgress /\ [][NextProgress]_vars

NoCompileWhileStreaming == [][~(page.isStreaming /\ DebounceFire)]_vars

\* ------------------------------------------------------------ the compiler
\* lines of the source text given to the compiler (compiler specification)
MaxLines == 3

\* A source text is a sequence of lines; a line is one of:
\*   import        import { AbsoluteFill } from "remotion";
\*   blank         (empty)
\*   syntax        const x = ;
\*   compMy        const MyAnimation = () => null;
\*   compFoo       const Foo = () => null;
\*   compFooBody   const Foo = () => { const frame = useCurrentFrame(); return null; };
\*   value         const size = 100;
\*   wrapRet       function make() { return MyAnimation; }
\*   throwErr      throw new Error("boom");
\*   throwNull     throw Object.assign(new Error("boom"), { message: null });
\*   throwStack    throw Object.assign(new Error("boom"), { stack: 5 });
\*   throwStr      throw "boom";
LineKinds == {"import", "blank", "syntax", "compMy", "compFoo", "compFooBody",
              "value", "wrapRet", "throwErr", "throwNull", "throwStack", "throwStr"}

RECURSIVE TrimStart(_)
TrimStart(code) ==
    IF code # <<>> /\ Head(code) = "blank" THEN TrimStart(Tail(code)) ELSE code

RECURSIVE TrimEnd(_)
TrimEnd(code) ==
    IF code # <<>> /\ code[Len(code)] = "blank"
    THEN TrimEnd(SubSeq(code, 1, Len(code) - 1))
    ELSE code

\* String.prototype.trim on a text: the blank lines at both ends go
Trim(code) == TrimEnd(TrimStart(code))

\* prepareCode: every import line is replaced by the empty string, then trim
prepareCode(code) ==
    Trim([i \in 1..Len(code) |-> IF code[i] = "import" THEN "blank" ELSE code[i]])

\* Babel.transform: line of the first syntax error, 0 if the text parses
BabelErrorLine(prepared) ==
    IF \E i \in 1..Len(prepared) : prepared[i] = "syntax"
    THEN CHOOSE i \in 1..Len(prepared) :
           prepared[i] = "syntax" /\ \A j \in 1..(i - 1) : prepared[j] # "syntax"
    ELSE 0

\* the matches of /(?:const|function)\s+(\w+)/g in one line, in order
DeclNames(line) ==
    CASE line = "compMy" -> <<"MyAnimation">>
      [] line = "compFoo" -> <<"Foo">>
      [] line = "compFooBody" -> <<"Foo", "frame">>
      [] line = "value" -> <<"size">>
      [] line = "wrapRet" -> <<"make">>
      [] OTHER -> <<>>

RECURSIVE AllDeclNames(_)
AllDeclNames(code) ==
    IF code = <<>> THEN <<>> ELSE DeclNames(Head(code)) \o AllDeclNames(Tail(code))

\* "Ensure we return the component": the identifier of the appended return
\* statement, "" if nothing is appended
ReturnedName(finalCode) ==
    IF \E i \in 1..Len(finalCode) : finalCode[i] = "wrapRet" THEN ""
    ELSE IF \E i \in 1..Len(finalCode) : finalCode[i] = "compMy" THEN "MyAnimation"
    ELSE LET match == AllDeclNames(finalCode)
         IN IF match # <<>> THEN match[Len(match)] ELSE ""

\* what a throw statement of the source throws
Thrown(line) ==
    CASE line = "throwErr" -> [isError |-> TRUE, message |-> "boom", stack |-> "lines"]
      [] line = "throwNull" -> [isError |-> TRUE, message |-> "null", stack |-> "lines"]
      [] line = "throwStack" -> [isError |-> TRUE, message |-> "boom", stack |-> "number"]
      [] OTHER -> [isError |-> FALSE, message |-> "", stack |-> "none"]

ThrowKinds == {"throwErr", "throwNull", "throwStack", "throwStr"}

\* createComponent(...): the statements of finalCode run in order, then the
\* appended return statement
Evaluate(finalCode, name) ==
    IF \E i \in 1..Len(finalCode) : finalCode[i] \in ThrowKinds
    THEN LET i == CHOOSE k \in 1..Len(finalCode) :
                    finalCode[k] \in ThrowKinds
                    /\ \A j \in 1..(k - 1) : finalCode[j] \notin ThrowKinds
         IN [kind |-> "throw", value |-> "", thrown |-> Thrown(finalCode[i])]
    ELSE CASE name \in {"MyAnimation", "Foo", "make"} ->
                [kind |-> "value", value |-> "function", thrown |-> Thrown("")]
           [] name = "frame" ->
                \* ReferenceError: frame is not defined
                [kind |-> "throw", value |-> "",
                 thrown |-> [isError |-> TRUE, message |-> "frame is not defined",
                             stack |-> "lines"]]
           [] OTHER ->
                [kind |-> "value", value |-> "other", thrown |-> Thrown("")]

\* CompilationResult, and whether the call threw instead of returning one
NoError == [isNull |-> TRUE, text |-> "", line |-> 0, ctx |-> <<>>]
ErrorText(text) == [isNull |-> FALSE, text |-> text, line |-> 0, ctx |-> <<>>]
Failed(error) == [threw |-> FALSE, Component |-> "null", error |-> error]
Compiled == [threw |-> FALSE, Component |-> "function", error |-> NoError]
Threw == [threw |-> TRUE, Component |-> "null", error |-> NoError]

\* the part the two compilers share: from the transpiled code to the check of
\* typeof Component; the thrown value when evaluation throws
AfterTranspile(transpiled) ==
    LET r == Evaluate(transpiled, ReturnedName(transpiled))
    IN IF r.kind = "throw" THEN [done |-> FALSE, thrown |-> r.thrown, result |-> Threw]
       ELSE [done |-> TRUE, thrown |-> r.thrown,
             result |-> IF r.value # "function"
                        THEN Failed(ErrorText("Code must be a function that returns a React component"))
                        ELSE Compiled]

\* compileCode of src/remotion/compiler.ts
compileCodeRemotion(code) ==
    IF Trim(code) = <<>> THEN Failed(ErrorText("No code provided"))
    ELSE LET preparedCode == prepareCode(code) IN
         IF BabelErrorLine(preparedCode) # 0 THEN Failed(ErrorText("SyntaxError"))
         ELSE IF preparedCode = <<>> THEN Failed(ErrorText("Transpilation failed"))
         ELSE LET a == AfterTranspile(preparedCode) IN
              IF a.done THEN a.result
              ELSE IF ~a.thrown.isError THEN Failed(ErrorText("Unknown compilation error"))
              ELSE IF a.thrown.message = "null" THEN Failed(NoError)
              ELSE Failed(ErrorText(a.thrown.message))

\* formatContext: the numbered lines around a line, radius 2
formatContext(source, line) ==
    LET start == Max2(0, line - 1 - 2)
        end == Min2(Len(source), line - 1 + 2 + 1)
    IN [idx \in 1..(end - start) |-> <<start + idx, source[start + idx]>>]

\* formatBabelError for an error with loc
formatBabelError(preparedCode, line) ==
    [isNull |-> FALSE, text |-> "SyntaxError", line |-> line,
     ctx |-> formatContext(preparedCode, line)]

\* compileCode of src/components/AnimationPlayer/RenderControls
compileCodeRender(code) ==
    IF Trim(code) = <<>> THEN Failed(ErrorText("No code provided"))
    ELSE LET preparedCode == prepareCode(code) IN
         IF BabelErrorLine(preparedCode) # 0
         THEN Failed(formatBabelError(preparedCode, BabelErrorLine(preparedCode)))
         ELSE IF preparedCode = <<>> THEN Failed(ErrorText("Transpilation failed"))
         ELSE LET a == AfterTranspile(preparedCode) IN
              IF a.done THEN a.result
              ELSE IF ~a.thrown.isError THEN Failed(ErrorText("Unknown compilation error"))
              ELSE IF a.thrown.stack = "number" THEN Threw
              ELSE Failed(ErrorText("message (stackLine)"))

\* no result yet
Pending == [threw |-> FALSE, Component |-> "pending", error |-> NoError]

RECURSIVE CodeSeqs(_)
CodeSeqs(n) ==
    IF n = 0 THEN {<<>>}
    ELSE CodeSeqs(n - 1) \cup
         {Append(c, k) : c \in {d \in CodeSeqs(n - 1) : Len(d) = n - 1}, k \in LineKinds}

\* a call of compileCode of src/remotion/compiler.ts
CompileRemotion ==
    /\ fn.kind = "compile"
    /\ fn.remotion = Pending
    /\ fn' = [fn EXCEPT !.remotion = compileCodeRemotion(fn.code)]
    /\ UNCHANGED <<gens, fixes, ctl, page, ev, hist, ps>>

\* a call of compileCode of RenderControls
CompileRender ==
    /\ fn.kind = "compile"
    /\ fn.render = Pending
    /\ fn' = [fn EXCEPT !.render = compileCodeRender(fn.code)]
    /\ UNCHANGED <<gens, fixes, ctl, page, ev, hist, ps>>

InitCompile ==
    /\ InitApp
    /\ page.autoStartTimer = FALSE
    /\ ps = NoParse
    /\ \E code \in CodeSeqs(MaxLines) :
         fn = [kind |-> "compile", code |-> code, remotion |-> Pending, render |-> Pending]

NextCompile ==
    \/ CompileRemotion
    \/ CompileRender

SpecCompile == InitCompile /\ [][NextCompile]_vars

\* C14: for every input compileCode returns a result and does not throw,
\* exactly one of Component and error is non-null, and an empty or
\* whitespace-only input gives the error "No code provided".
Total(r) ==
    r # Pending =>
        /\ ~r.threw
        /\ (r.Component = "null") # r.error.isNull
        /\ Trim(fn.code) = <<>> => r.error.text = "No code provided"

CompilerTotality == Total(fn.remotion) /\ Total(fn.render)

\* line of the first syntax error in the text given to compileCode
SyntaxLine(code) == BabelErrorLine(code)

\* C15: for a text with a syntax error on line N, counted in the text given
\* to compileCode, the error reports line N and its context window holds
\* line N with its content.
LineAccurateErrors ==
    (fn.render # Pending /\ SyntaxLine(fn.code) # 0) =>
        /\ fn.render.error.line = SyntaxLine(fn.code)
        /\ \E i \in 1..Len(fn.render.error.ctx) :
             fn.render.error.ctx[i] = <<SyntaxLine(fn.code), "syntax">>

\* the name a line declares at the top level, "" if it declares none
TopLevelName(line) ==
    IF DeclNames(line) = <<>> THEN "" ELSE DeclNames(line)[1]

\* the last top-level declaration of a text, "" if there is none
RECURSIVE LastTopLevel(_)
LastTopLevel(code) ==
    IF code = <<>> THEN ""
    ELSE IF TopLevelName(code[Len(code)]) # "" THEN TopLevelName(code[Len(code)])
    ELSE LastTopLevel(SubSeq(code, 1, Len(code) - 1))

\* the text has neither "return MyAnimation" nor a declaration of
\* MyAnimation, parses, and does not throw when evaluated
NeedsFallback(code) ==
    \A i \in 1..Len(code) :
        code[i] \notin ({"wrapRet", "compMy", "syntax"} \cup ThrowKinds)

\* C20: without "return MyAnimation" and without a declaration of
\* MyAnimation, the return appended names the last top-level declaration, so
\* a text whose last top-level declaration is a component compiles to a
\* function.
FallbackExportDetection ==
    (fn.remotion # Pending /\ NeedsFallback(fn.code)) =>
        /\ ReturnedName(prepareCode(fn.code)) = LastTopLevel(fn.code)
        /\ LastTopLevel(fn.code) = "Foo" => fn.remotion.Component = "function"

\* ----------------------------------------------------- the quick-fix route
\* fixes in one answer of the fix model (quick-fix specification)
MaxFixes == 2

\* a fix of the answer: the replacement text is kept as the lines it splits
\* into at "\n" (one line, or two when the text holds a newline)
FixSet ==
    [lineNumber : 0..(MaxLines + 1), fixedLine : {<<"F">>, <<"F", "G">>}]

RECURSIVE FixSeqs(_)
FixSeqs(n) ==
    IF n = 0 THEN {<<>>}
    ELSE FixSeqs(n - 1) \cup
         {Append(s, f) : s \in {q \in FixSeqs(n - 1) : Len(q) = n - 1}, f \in FixSet}

RECURSIVE TextSeqs(_)
TextSeqs(n) ==
    IF n = 1 THEN {<<"a">>, <<"b">>}
    ELSE TextSeqs(n - 1) \cup
         {Append(s, c) : s \in {q \in TextSeqs(n - 1) : Len(q) = n - 1}, c \in {"a", "b"}}

\* "for (const fix of fixData.fixes)": the array of line texts and the list
\* of changed line numbers after the fixes
RECURSIVE ApplyFixes(_, _, _)
ApplyFixes(fixedLines, changedLineNumbers, fixList) ==
    IF fixList = <<>> THEN [fixedLines |-> fixedLines, linesChanged |-> changedLineNumbers]
    ELSE LET fix == Head(fixList)
             lineIndex == fix.lineNumber - 1
         IN IF lineIndex >= 0 /\ lineIndex < Len(fixedLines)
            THEN ApplyFixes([fixedLines EXCEPT ![lineIndex + 1] = fix.fixedLine],
                            Append(changedLineNumbers, fix.lineNumber), Tail(fixList))
            ELSE ApplyFixes(fixedLines, changedLineNumbers, Tail(fixList))

\* fixedLines.join('\n'), read again as lines
RECURSIVE JoinLines(_)
JoinLines(texts) ==
    IF texts = <<>> THEN <<>> ELSE Head(texts) \o JoinLines(Tail(texts))

\* the answer of the route for the code and the fixes of the model
QuickFixResult(codeLines, fixList) ==
    IF fixList # <<>>
    THEN LET r == ApplyFixes([i \in 1..Len(codeLines) |-> <<codeLines[i]>>], <<>>, fixList)
         IN [fixedCode |-> JoinLines(r.fixedLines), linesChanged |-> r.linesChanged]
    ELSE [fixedCode |-> codeLines, linesChanged |-> <<>>]

\* POST of the quick-fix route, from the answer of the model on
QuickFixApply ==
    /\ fn.kind = "quickfix"
    /\ ~fn.done
    /\ fn' = [fn EXCEPT !.done = TRUE, !.result = QuickFixResult(fn.code, fn.fixes)]
    /\ UNCHANGED <<gens, fixes, ctl, page, ev, hist, ps>>

InitQuickFix ==
    /\ InitApp
    /\ page.autoStartTimer = FALSE
    /\ ps = NoParse
    /\ \E code \in TextSeqs(MaxLines) : \E fs \in FixSeqs(MaxFixes) :
         fn = [kind |-> "quickfix", code |-> code, fixes |-> fs, done |-> FALSE,
               result |-> [fixedCode |-> <<>>, linesChanged |-> <<>>]]

NextQuickFix == QuickFixApply

SpecQuickFix == InitQuickFix /\ [][NextQuickFix]_vars

\* line numbers of the code that a fix of the list names
InRange(code, fs) ==
    {fs[k].lineNumber : k \in 1..Len(fs)} \cap (1..Len(code))

\* C16: the result of a quick fix has as many lines as the code, every line
\* no in-range fix names is the line of the input, and linesChanged holds
\* exactly the in-range line numbers of the fixes.
TargetedFixReplacement ==
    fn.done =>
        /\ Len(fn.result.fixedCode) = Len(fn.code)
        /\ \A i \in 1..Len(fn.code) :
             i \notin InRange(fn.code, fn.fixes) =>
                 (i <= Len(fn.result.fixedCode) /\ fn.result.fixedCode[i] = fn.code[i])
        /\ {fn.result.linesChanged[k] : k \in 1..Len(fn.result.linesChanged)}
             = InRange(fn.code, fn.fixes)

\* C17: when the quick fix is answered with no applicable fix or fails with
\* an error other than 429, and the user has not cancelled, that step starts
\* a full regeneration.
TwoTierFallback ==
    [][\A f \in FixSlots : \A outcome \in {"nofix", "fail"} : \A bad \in BOOLEAN :
         (FixResponse(f, outcome, bad) /\ ~ctl.isCancelled) => ev'.genStarted]_vars

\* ---------------------------------------------------------------------------
\* Endpoint selection of runGeneration.
\* ---------------------------------------------------------------------------

\* a parameter or prop that was not given
UNDEF == "undefined-value"

\* the values an optional code string takes: not given, the empty string, text
OptCodes == {UNDEF, "", "code"}

\* JavaScript truthiness of an optional string
Truthy(v) == v # UNDEF /\ v # ""

\* a || b on optional strings
OrElse(a, b) == IF Truthy(a) THEN a ELSE b

MODELS ==
    { [id |-> "gpt-4o", provider |-> "openai"],
      [id |-> "gpt-4o-mini", provider |-> "openai"],
      [id |-> "gpt-4-turbo", provider |-> "openai"],
      [id |-> "gemini-2.0-flash", provider |-> "google"],
      [id |-> "gemini-1.5-pro", provider |-> "google"],
      [id |-> "gemini-1.5-flash", provider |-> "google"] }

\* the ids a model selector can hold; the last one is not in MODELS
ModelIds == {m.id : m \in MODELS} \cup {"gpt-5.2:low"}

getModelProvider(modelId) ==
    IF \E m \in MODELS : m.id = modelId
    THEN (CHOOSE m \in MODELS : m.id = modelId).provider
    ELSE "openai"

codeContextOf(overrideCode, isRefineMode, currentCode) ==
    OrElse(overrideCode, IF isRefineMode THEN currentCode ELSE UNDEF)

\* the provider is asked first: a google model always goes to the Gemini route
EndpointProviderFirst(overrideCode, isRefineMode, currentCode, model) ==
    IF getModelProvider(model) = "google"
    THEN [endpoint |-> "/api/generate-gemini", body |-> [kind |-> "generate", model |-> model]]
    ELSE IF Truthy(codeContextOf(overrideCode, isRefineMode, currentCode))
    THEN [endpoint |-> "/api/refine",
          body |-> [kind |-> "refine",
                    currentCode |-> codeContextOf(overrideCode, isRefineMode, currentCode)]]
    ELSE [endpoint |-> "/api/generate", body |-> [kind |-> "generate", model |-> model]]

\* the endpoint and the body of the transport request
Endpoint(overrideCode, isRefineMode, currentCode, model) ==
    IF Truthy(codeContextOf(overrideCode, isRefineMode, currentCode))
    THEN [endpoint |-> "/api/refine",
          body |-> [kind |-> "refine",
                    currentCode |-> codeContextOf(overrideCode, isRefineMode, currentCode)]]
    ELSE IF getModelProvider(model) = "google"
    THEN [endpoint |-> "/api/generate-gemini", body |-> [kind |-> "generate", model |-> model]]
    ELSE [endpoint |-> "/api/generate", body |-> [kind |-> "generate", model |-> model]]

NoRequest == [endpoint |-> "none", body |-> [kind |-> "none"]]

\* runGeneration reaches the fetch of the transport request
SelectEndpoint ==
    /\ fn.kind = "route"
    /\ fn.request = NoRequest
    /\ fn' = [fn EXCEPT !.request =
                 Endpoint(fn.overrideCode, fn.isRefineMode, fn.currentCode, fn.model)]
    /\ UNCHANGED <<gens, fixes, ctl, page, ev, hist, ps>>

InitRoute ==
    /\ InitApp
    /\ page.autoStartTimer = FALSE
    /\ ps = NoParse
    /\ \E overrideCode \in OptCodes : \E isRefineMode \in BOOLEAN :
       \E currentCode \in OptCodes : \E model \in ModelIds :
         fn = [kind |-> "route", overrideCode |-> overrideCode,
               isRefineMode |-> isRefineMode, currentCode |-> currentCode,
               model |-> model, request |-> NoRequest]

NextRoute == SelectEndpoint

SpecRoute == InitRoute /\ [][NextRoute]_vars

\* the request carries code: a fix called with code, or refine mode with code
CarriesCode ==
    \/ fn.overrideCode \notin {UNDEF, ""}
    \/ fn.isRefineMode /\ fn.currentCode \notin {UNDEF, ""}

\* C18: a request that carries code context goes to /api/refine whatever the
\* provider of the model; a request without code context goes to
\* /api/generate-gemini when the provider is google and to /api/generate
\* otherwise.
EndpointRouting ==
    fn.request # NoRequest =>
        /\ CarriesCode => fn.request.endpoint = "/api/refine"
        /\ ~CarriesCode =>
             fn.request.endpoint =
                IF fn.model \in {"gemini-2.0-flash", "gemini-1.5-pro", "gemini-1.5-flash"}
                THEN "/api/generate-gemini" ELSE "/api/generate"

\* a fix with code under a google model was sent to /api/refine
EndpointRoutingWitness ==
    /\ fn.kind = "route"
    /\ fn.overrideCode = "code"
    /\ fn.model = "gemini-1.5-pro"
    /\ fn.request.endpoint = "/api/refine"

\* ---------------------------------------------------------------------------
\* Reference-image analysis of runGeneration: one sub-request per reference,
\* joined by Promise.all before the prompt is assembled.
\* ---------------------------------------------------------------------------

MaxRefs == 3

\* how a sub-request to /api/analyze-reference ends: an answer with an
\* analysis, an answer { error } with status 400 or 500, a rejected fetch, a
\* body that is not JSON
RefOutcomes == {"analysis", "httpError", "networkError", "notJson"}

RefFailed(o) == o \in {"httpError", "networkError", "notJson"}

\* the value of the async function of one reference; <<>> is the empty string
RefContribution(ref, o) ==
    CASE o = "analysis"  -> <<"Reference", ref, "analysis-text">>
      [] o = "httpError" -> <<"Reference", ref, "undefined">>
      [] OTHER           -> <<>>

RECURSIVE FilterBoolean(_)
FilterBoolean(analyses) ==
    IF analyses = <<>> THEN <<>>
    ELSE IF Head(analyses) = <<>> THEN FilterBoolean(Tail(analyses))
    ELSE <<Head(analyses)>> \o FilterBoolean(Tail(analyses))

\* analyses.filter(Boolean).join: the parts of the reference section, in the
\* order of the references
referenceContextOf(n, res) ==
    FilterBoolean([i \in 1..n |-> RefContribution(i, res[i])])

\* the sub-request of reference i settles
RefSettle(i, o) ==
    /\ fn.kind = "refs"
    /\ i \in 1..fn.n
    /\ fn.res[i] = "pending"
    /\ fn' = [fn EXCEPT !.res[i] = o, !.order = Append(@, i)]
    /\ UNCHANGED <<gens, fixes, ctl, page, ev, hist, ps>>

\* Promise.all resolved: the prompt is assembled and the transport request
\* is issued
IssueTransport ==
    /\ fn.kind = "refs"
    /\ ~fn.issued
    /\ \A i \in 1..fn.n : fn.res[i] # "pending"
    /\ fn' = [fn EXCEPT !.issued = TRUE,
                        !.referenceContext = referenceContextOf(fn.n, fn.res)]
    /\ UNCHANGED <<gens, fixes, ctl, page, ev, hist, ps>>

InitRefs ==
    /\ InitApp
    /\ page.autoStartTimer = FALSE
    /\ ps = NoParse
    /\ \E n \in 0..MaxRefs :
         fn = [kind |-> "refs", n |-> n, res |-> [i \in 1..n |-> "pending"],
               order |-> <<>>, issued |-> FALSE, referenceContext |-> <<>>,
               onError |-> FALSE]

NextRefs ==
    \/ \E i \in 1..MaxRefs : \E o \in RefOutcomes : RefSettle(i, o)
    \/ IssueTransport

SpecRefs == InitRefs /\ [][NextRefs]_vars

\* C19: the transport request is issued only after every sub-request has
\* settled; no failure of a sub-request is reported with onError; and the
\* reference section holds, in the order of the references whatever the
\* order of completion, one part for each sub-request that succeeded and
\* nothing for one that failed.
ReferenceJoin ==
    fn.issued =>
        /\ \A i \in 1..fn.n : fn.res[i] # "pending"
        /\ ~fn.onError
        /\ \A k \in 1..Len(fn.referenceContext) :
             ~RefFailed(fn.res[fn.referenceContext[k][2]])
        /\ \A i \in 1..fn.n :
             ~RefFailed(fn.res[i]) =>
                 \E k \in 1..Len(fn.referenceContext) : fn.referenceContext[k][2] = i
        /\ \A k \in 1..Len(fn.referenceContext) : \A l \in 1..Len(fn.referenceContext) :
             k < l => fn.referenceContext[k][2] < fn.referenceContext[l][2]

\* ---------------------------------------------------------------------------
\* Final sanitization of runGeneration.
\* ---------------------------------------------------------------------------

\* the tokens of a response: text that is no component, a newline, a fence,
\* a language tag, a whole component definition (from its export to the
\* closing of its body)
SanTokens == {"x", NL, FENCE, "tsx", "component"}

RECURSIVE TrimTextStart(_)
TrimTextStart(text) ==
    IF text # <<>> /\ Head(text) = NL THEN TrimTextStart(Tail(text)) ELSE text

RECURSIVE TrimTextEnd(_)
TrimTextEnd(text) ==
    IF text # <<>> /\ text[Len(text)] = NL
    THEN TrimTextEnd(SubSeq(text, 1, Len(text) - 1)) ELSE text

\* helpers/sanitize-response: the component definition when there is one,
\* the trimmed input otherwise
extractComponentCode(text) ==
    IF \E i \in 1..Len(text) : text[i] = "component"
    THEN <<"component">>
    ELSE TrimTextEnd(TrimTextStart(text))

\* the final sanitization: the two replaces, then the extraction
Sanitize(text) ==
    extractComponentCode(StripTrailingFence(StripLeadingFence(text)))

SanitizeOnce ==
    /\ fn.kind = "sanitize"
    /\ fn.applied = 0
    /\ fn' = [fn EXCEPT !.applied = 1, !.once = Sanitize(fn.text)]
    /\ UNCHANGED <<gens, fixes, ctl, page, ev, hist, ps>>

SanitizeAgain ==
    /\ fn.kind = "sanitize"
    /\ fn.applied = 1
    /\ fn' = [fn EXCEPT !.applied = 2, !.twice = Sanitize(fn.once)]
    /\ UNCHANGED <<gens, fixes, ctl, page, ev, hist, ps>>

RECURSIVE SanSeqs(_)
SanSeqs(n) ==
    IF n = 0 THEN {<<>>}
    ELSE SanSeqs(n - 1) \cup
         {Append(t, tok) : t \in {u \in SanSeqs(n - 1) : Len(u) = n - 1}, tok \in SanTokens}

InitSanitize ==
    /\ InitApp
    /\ page.autoStartTimer = FALSE
    /\ ps = NoParse
    /\ \E text \in SanSeqs(MaxText) :
         fn = [kind |-> "sanitize", text |-> text, applied |-> 0,
               once |-> <<>>, twice |-> <<>>]

NextSanitize == SanitizeOnce \/ SanitizeAgain

SpecSanitize == InitSanitize /\ [][NextSanitize]_vars

\* C21: sanitizing the sanitized response gives the sanitized response.
IdempotentSanitization ==
    (fn.kind = "sanitize" /\ fn.applied = 2) => fn.twice = fn.once

\* C22: a stream without an event of type error is read to its end and the
\* accumulator holds the text-delta payloads of its frames, whatever lines
\* that are no data frames, payloads that are no JSON and events of unknown
\* type stand between them; a stream that failed holds an error event.
NonConformingIgnored ==
    /\ ps.status = "failed" => \E i \in 1..Len(ps.frames) : ps.frames[i] = "error"
    /\ (ps.status = "done" /\ FirstDone(ps.frames) = 0) => ps.acc = DeltasOf(ps.frames)

\* a generation, or a repair request, that has started and not yet run its
\* finally block; the generation the page starts by itself when it is opened
\* with a prompt counts from the first render
GenRunning == page.autoStartTimer \/ \E g \in Slots : gens[g].phase # "idle"
FixRunning == \E f \in FixSlots : fixes[f].phase # "idle"

\* C23: when the page has settled, agentStatus monitoring means a generation
\* is running and agentStatus fixing means a repair request is running.
AgentStatusReflectsWork ==
    /\ page.agentStatus = "monitoring" => GenRunning
    /\ page.agentStatus = "fixing" => FixRunning

\* C24: a generation started by the user, through the form as well as
\* through triggerGeneration, clears the cancelled flag.
FreshGenerationClearsCancelled ==
    [][(Submit \/ TriggerGeneration) => ~ctl'.isCancelled]_vars

\* C25: when the finally block of a superseded or cancelled request g runs
\* while a later request h is running, with the controller of h in
\* abortControllerRef and streaming reported, the ref still holds the
\* controller of h afterwards and streaming is still reported.
CleanupKeepsSuccessor ==
    [][\A g \in Slots : \A h \in Slots \ {g} :
         ( /\ gens[g].phase # "idle"
           /\ gens[g].superseded \/ gens[g].cancelled # "no"
           /\ gens'[g].phase = "idle"
           /\ gens[h].phase # "idle" /\ gens'[h].phase # "idle"
           /\ ~gens[h].superseded /\ gens[h].cancelled = "no"
           /\ ctl.abortRef = h
           /\ page.isStreaming )
         => (ctl'.abortRef = h /\ page'.isStreaming)]_vars

\* C26: when the answer of a quick fix makes triggerFix fall back to a full
\* regeneration and that regeneration is started, the page is left with
\* streaming reported as true.
StreamingBracketsFix ==
    [][\A f \in FixSlots : \A outcome \in {"nofix", "fail"} : \A bad \in BOOLEAN :
         (FixResponse(f, outcome, bad) /\ ev'.genStarted) => page'.isStreaming]_vars

\* ---------------------------------------------------------------------------
\* lib/rate-limiter: checkRateLimit and the periodic cleanup. Times are in
\* milliseconds.
\* ---------------------------------------------------------------------------

WINDOW_MS == 60 * 1000
MAX_REQUESTS_PER_WINDOW == 10
COOLDOWN_MS == 5000

\* how many times the clock advances in a run with one client, and in a run
\* with two
MaxTicks == 10
MaxKeyTicks == 4

\* the keys of two clients of one route
Keys == {"generate:c1", "generate:c2"}

\* by how much the clock advances between two events
Deltas == {1, COOLDOWN_MS, WINDOW_MS - COOLDOWN_MS}

\* rateLimits.get(key) is undefined
NoEntry == [count |-> 0, firstRequest |-> 0, lastRequest |-> 0]

NoResult == [key |-> "none", allowed |-> FALSE, remaining |-> 0, resetIn |-> 0,
             reason |-> "none", sincePrev |-> -1]

FreshEntry(now) == [count |-> 1, firstRequest |-> now, lastRequest |-> now]

\* a denial that records the time of the denied call
DeniedTouch(entry, now, remaining, resetIn, reason) ==
    [entry |-> [entry EXCEPT !.lastRequest = now],
     result |-> [allowed |-> FALSE, remaining |-> remaining, resetIn |-> resetIn,
                 reason |-> reason]]

\* the two returns with allowed: false
Denied(entry, now, remaining, resetIn, reason) ==
    [entry |-> entry,
     result |-> [allowed |-> FALSE, remaining |-> remaining, resetIn |-> resetIn,
                 reason |-> reason]]

\* a limit test that lets one more request through
OverLimitOffByOne(entry) == entry.count > MAX_REQUESTS_PER_WINDOW

OverLimit(entry) == entry.count >= MAX_REQUESTS_PER_WINDOW

\* checkRateLimit on the entry of its key: the entry afterwards and the result
checkRateLimit(entry, now) ==
    IF entry = NoEntry
    THEN [entry |-> FreshEntry(now),
          result |-> [allowed |-> TRUE, remaining |-> MAX_REQUESTS_PER_WINDOW - 1,
                      resetIn |-> WINDOW_MS, reason |-> "none"]]
    ELSE IF now - entry.firstRequest > WINDOW_MS
    THEN [entry |-> FreshEntry(now),
          result |-> [allowed |-> TRUE, remaining |-> MAX_REQUESTS_PER_WINDOW - 1,
                      resetIn |-> WINDOW_MS, reason |-> "none"]]
    ELSE IF now - entry.lastRequest < COOLDOWN_MS
    THEN Denied(entry, now, MAX_REQUESTS_PER_WINDOW - entry.count,
                COOLDOWN_MS - (now - entry.lastRequest), "cooldown")
    ELSE IF OverLimit(entry)
    THEN Denied(entry, now, 0, WINDOW_MS - (now - entry.firstRequest), "limit")
    ELSE [entry |-> [entry EXCEPT !.count = @ + 1, !.lastRequest = now],
          result |-> [allowed |-> TRUE,
                      remaining |-> MAX_REQUESTS_PER_WINDOW - (entry.count + 1),
                      resetIn |-> WINDOW_MS - (now - entry.firstRequest),
                      reason |-> "none"]]

\* a cleanup that drops an entry as soon as its cooldown is over
StaleAfterCooldown(entry, now) == now - entry.lastRequest > COOLDOWN_MS

\* the test of the cleanup
Stale(entry, now) == now - entry.firstRequest > WINDOW_MS * 2

\* the callback of setInterval
cleanup(limits, now) ==
    [k \in DOMAIN limits |-> IF limits[k] # NoEntry /\ Stale(limits[k], now)
                    THEN NoEntry ELSE limits[k]]

\* Date.now() advances
Tick(d) ==
    /\ fn.kind = "rate"
    /\ fn.ticks < fn.maxTicks
    /\ fn' = [fn EXCEPT !.now = @ + d, !.ticks = @ + 1]
    /\ UNCHANGED <<gens, fixes, ctl, page, ev, hist, ps>>

\* a route calls checkRateLimit(key). plain is the map of a process whose
\* cleanup never runs, granted counts the allowed calls of the key since its
\* window started, sincePrev is the time since the allowed call before.
Check(key) ==
    /\ fn.kind = "rate"
    /\ key \in DOMAIN fn.limits
    /\ LET r == checkRateLimit(fn.limits[key], fn.now)
           q == checkRateLimit(fn.plain[key], fn.now)
           opened == r.result.allowed /\ r.entry.count = 1
       IN fn' = [fn EXCEPT
                   !.limits[key] = r.entry,
                   !.plain[key] = q.entry,
                   !.granted[key] = IF opened THEN 1
                                    ELSE IF r.result.allowed THEN @ + 1 ELSE @,
                   !.res = [key |-> key, allowed |-> r.result.allowed,
                            remaining |-> r.result.remaining,
                            resetIn |-> r.result.resetIn,
                            reason |-> r.result.reason,
                            sincePrev |-> IF fn.plain[key] = NoEntry THEN -1
                                          ELSE fn.now - fn.plain[key].lastRequest],
                   !.resPlain = q.result]
    /\ UNCHANGED <<gens, fixes, ctl, page, ev, hist, ps>>

\* the interval timer fires
Cleanup ==
    /\ fn.kind = "rate"
    /\ cleanup(fn.limits, fn.now) # fn.limits
    /\ fn' = [fn EXCEPT !.limits = cleanup(fn.limits, fn.now), !.cleaned = TRUE]
    /\ UNCHANGED <<gens, fixes, ctl, page, ev, hist, ps>>

RateStart(keys, maxTicks, now, limits) ==
    [kind |-> "rate", now |-> now, ticks |-> 0, maxTicks |-> maxTicks,
     limits |-> limits, plain |-> limits,
     granted |-> [k \in keys |-> limits[k].count],
     res |-> NoResult,
     resPlain |-> [allowed |-> FALSE, remaining |-> 0, resetIn |-> 0, reason |-> "none"],
     cleaned |-> FALSE]

\* one client, the map empty as when the module is loaded
InitRate ==
    /\ InitApp
    /\ page.autoStartTimer = FALSE
    /\ ps = NoParse
    /\ fn = RateStart({"generate:c1"}, MaxTicks, 0, [k \in {"generate:c1"} |-> NoEntry])

\* two clients; the map is empty, or the first client has made nine requests
\* five seconds apart
InitRateKeys ==
    /\ InitApp
    /\ page.autoStartTimer = FALSE
    /\ ps = NoParse
    /\ \/ fn = RateStart(Keys, MaxKeyTicks, 0, [k \in Keys |-> NoEntry])
       \/ fn = RateStart(Keys, MaxKeyTicks, 8 * COOLDOWN_MS,
                         [k \in Keys |->
                            IF k = "generate:c1"
                            THEN [count |-> 9, firstRequest |-> 0,
                                  lastRequest |-> 8 * COOLDOWN_MS]
                            ELSE NoEntry])

NextRate ==
    \/ \E d \in Deltas : Tick(d)
    \/ \E key \in Keys : Check(key)
    \/ Cleanup

SpecRate == InitRate /\ [][NextRate]_vars

SpecRateKeys == InitRateKeys /\ [][NextRate]_vars

\* C27: the stored count of a key never exceeds MAX_REQUESTS_PER_WINDOW, at
\* most that many calls are allowed from the start of a window to its reset,
\* and every returned remaining is in 0..9.
RateWindowBound ==
    fn.kind = "rate" =>
        /\ \A k \in DOMAIN fn.limits :
             /\ fn.limits[k].count <= MAX_REQUESTS_PER_WINDOW
             /\ fn.granted[k] <= MAX_REQUESTS_PER_WINDOW
        /\ fn.res.key # "none" => fn.res.remaining \in 0..(MAX_REQUESTS_PER_WINDOW - 1)

\* the tenth request of a window was allowed and the next one refused
RateWindowBoundWitness ==
    /\ fn.kind = "rate"
    /\ fn.limits["generate:c1"].count = MAX_REQUESTS_PER_WINDOW
    /\ fn.granted["generate:c1"] = MAX_REQUESTS_PER_WINDOW
    /\ fn.res.reason = "limit"

\* C28: a call that is allowed comes at least COOLDOWN_MS after the allowed
\* call of the same key before it.
CooldownBetweenAllowed ==
    (fn.kind = "rate" /\ fn.res.allowed /\ fn.res.sincePrev >= 0)
        => fn.res.sincePrev >= COOLDOWN_MS

\* C29: a call that is refused leaves the map as it was, and every call
\* leaves the entries of the other keys as they were.
DeniedChangesNothing ==
    [][\A key \in Keys :
         Check(key) =>
            /\ ~fn'.res.allowed => fn'.limits = fn.limits
            /\ \A k \in Keys \ {key} : fn'.limits[k] = fn.limits[k]]_vars

\* the first client was refused for its limit while the second has an entry
DeniedChangesNothingWitness ==
    /\ fn.kind = "rate"
    /\ fn.res.key = "generate:c1"
    /\ ~fn.res.allowed
    /\ fn.res.reason = "limit"
    /\ fn.limits["generate:c1"].count = MAX_REQUESTS_PER_WINDOW
    /\ fn.limits["generate:c2"] # NoEntry

\* C30: every call returns the result, and leaves the entry, that it does in
\* a process whose cleanup never runs.
CleanupTransparent ==
    [][\A key \in Keys :
         Check(key) =>
            /\ fn'.res.allowed = fn'.resPlain.allowed
            /\ fn'.res.remaining = fn'.resPlain.remaining
            /\ fn'.res.resetIn = fn'.resPlain.resetIn
            /\ fn'.res.reason = fn'.resPlain.reason
            /\ fn'.limits[key] = fn'.plain[key]]_vars

\* the cleanup has deleted the entry of the client and a later call was made
CleanupTransparentWitness ==
    /\ fn.kind = "rate"
    /\ fn.cleaned
    /\ fn.res.allowed
    /\ fn.limits["generate:c1"].firstRequest > WINDOW_MS * 2

====
